---- MODULE Spec2Model ----
(***************************************************************************)
(* A model of package errors (errors.go, stack.go): status errors, stack   *)
(* errors, the process-wide error writer and the stack capture/formatting. *)
(* Go strings are modelled as sequences of one-character strings.          *)
(***************************************************************************)
EXTENDS Integers, Sequences, FiniteSets, TLC

VARIABLES heap, errorWriter, sinks, written, now, callDepth, ret

vars == <<heap, errorWriter, sinks, written, now, callDepth, ret>>

-----------------------------------------------------------------------------
(* Bounds of the model.                                                    *)

\* Number of error objects that may be allocated.
MaxObjs == 1
\* Call depth of the application above runtime.main that the stack
\* specification explores: deeper than the cap of a captured stack.
MaxDepth == 34
\* Length of the function names the formatting specification explores.
MaxNameLen == 5

-----------------------------------------------------------------------------
(* Strings.                                                                *)

Range(s) == {s[i] : i \in 1..Len(s)}

\* strings.LastIndex(s, c) for a one-byte separator; Go's 0-based index, -1 if absent.
LastIndex(s, c) ==
    IF \E i \in 1..Len(s) : s[i] = c
    THEN (CHOOSE i \in 1..Len(s) : s[i] = c /\ \A j \in (i+1)..Len(s) : s[j] # c) - 1
    ELSE -1

\* strings.Index(s, c) for a one-byte separator; Go's 0-based index, -1 if absent.
Index(s, c) ==
    IF \E i \in 1..Len(s) : s[i] = c
    THEN (CHOOSE i \in 1..Len(s) : s[i] = c /\ \A j \in 1..(i-1) : s[j] # c) - 1
    ELSE -1

\* The Go slice expression s[i:], i a 0-based index.
SliceFrom(s, i) == SubSeq(s, i + 1, Len(s))

Digit(d) == <<"0", "1", "2", "3", "4", "5", "6", "7", "8", "9">>[d + 1]

RECURSIVE FormatUint(_)
FormatUint(n) ==
    IF n < 10 THEN <<Digit(n)>> ELSE FormatUint(n \div 10) \o <<Digit(n % 10)>>

ItoaUnsigned(i) == FormatUint(IF i < 0 THEN -i ELSE i)

\* strconv.Itoa, and the %d verb of fmt applied to an int.
Itoa(i) == IF i < 0 THEN <<"-">> \o FormatUint(-i) ELSE FormatUint(i)

-----------------------------------------------------------------------------
(* The runtime's view of the program: symbols and the goroutine's stack.   *)

\* The symbol table of the running binary: each function occupies the
\* addresses entry .. entry+999; line is the source line of its entry.
\* Addresses 3000..3999 hold a function whose symbols were stripped.
SymTab ==
    << [name |-> <<"m", "a", "i", "n", ".", "r", "u", "n">>,
        file |-> <<"/", "s", "/", "m", "a", "i", "n", ".", "g", "o">>,
        entry |-> 1000, line |-> 10],
       [name |-> <<"a", "p", "p", "/", "d", "b", ".", "(", "*", "C", "o", "n", "n", ")", ".", "G", "e", "t">>,
        file |-> <<"/", "s", "/", "d", "b", "/", "c", "o", "n", "n", ".", "g", "o">>,
        entry |-> 2000, line |-> 20],
       [name |-> <<"w", ".", "T", ".", "D", "o">>,
        file |-> <<"c", ":", "\\", "w", "\\", "t", ".", "g", "o">>,
        entry |-> 4000, line |-> 40],
       [name |-> <<"e", "r", "r", "o", "r", "s", ".", "N", "e", "w">>,
        file |-> <<"/", "e", "/", "e", "r", "r", "o", "r", "s", ".", "g", "o">>,
        entry |-> 5000, line |-> 64],
       [name |-> <<"e", "r", "r", "o", "r", "s", ".", "W", "i", "t", "h", "S", "t", "a", "t", "u", "s">>,
        file |-> <<"/", "e", "/", "e", "r", "r", "o", "r", "s", ".", "g", "o">>,
        entry |-> 6000, line |-> 71],
       [name |-> <<"e", "r", "r", "o", "r", "s", ".", "W", "i", "t", "h", "M", "e", "s", "s", "a", "g", "e">>,
        file |-> <<"/", "e", "/", "e", "r", "r", "o", "r", "s", ".", "g", "o">>,
        entry |-> 7000, line |-> 81],
       [name |-> <<"e", "r", "r", "o", "r", "s", ".", "W", "i", "t", "h", "S", "t", "a", "c", "k">>,
        file |-> <<"/", "e", "/", "e", "r", "r", "o", "r", "s", ".", "g", "o">>,
        entry |-> 8000, line |-> 107],
       [name |-> <<"e", "r", "r", "o", "r", "s", ".", "l", "o", "g", "E", "r", "r", "o", "r">>,
        file |-> <<"/", "e", "/", "e", "r", "r", "o", "r", "s", ".", "g", "o">>,
        entry |-> 9000, line |-> 24],
       [name |-> <<"e", "r", "r", "o", "r", "s", ".", "c", "a", "l", "l", "e", "r", "s">>,
        file |-> <<"/", "e", "/", "s", "t", "a", "c", "k", ".", "g", "o">>,
        entry |-> 10000, line |-> 132],
       [name |-> <<"r", "u", "n", "t", "i", "m", "e", ".", "C", "a", "l", "l", "e", "r", "s">>,
        file |-> <<"/", "r", "/", "e", "x", "t", "e", "r", "n", ".", "g", "o">>,
        entry |-> 11000, line |-> 300],
       [name |-> <<"r", "u", "n", "t", "i", "m", "e", ".", "C", "a", "l", "l", "e", "r">>,
        file |-> <<"/", "r", "/", "e", "x", "t", "e", "r", "n", ".", "g", "o">>,
        entry |-> 12000, line |-> 200],
       [name |-> <<"r", "u", "n", "t", "i", "m", "e", ".", "m", "a", "i", "n">>,
        file |-> <<"/", "r", "/", "p", "r", "o", "c", ".", "g", "o">>,
        entry |-> 13000, line |-> 100],
       [name |-> <<"r", "u", "n", "t", "i", "m", "e", ".", "g", "o", "e", "x", "i", "t">>,
        file |-> <<"/", "r", "/", "a", "s", "m", ".", "s">>,
        entry |-> 14000, line |-> 500] >>

\* The value of a nil *runtime.Func.
NoFunc == [name |-> <<>>, file |-> <<>>, entry |-> -1, line |-> 0]

\* runtime.FuncForPC: the function that contains pc, or nil.
FuncForPC(pc) ==
    IF \E k \in DOMAIN SymTab : SymTab[k].entry <= pc /\ pc < SymTab[k].entry + 1000
    THEN SymTab[CHOOSE k \in DOMAIN SymTab :
                    SymTab[k].entry <= pc /\ pc < SymTab[k].entry + 1000]
    ELSE NoFunc

\* (*runtime.Func).FileLine: the file and the line of the instruction at pc.
FileLine(fn, pc) == [file |-> fn.file, line |-> fn.line + (pc - fn.entry)]

\* The entry address of the application function running at call level i:
\* main.run, a stripped function, T.Do and (*Conn).Get, in turn.
AppEntry(i) == <<1000, 3000, 4000, 2000>>[((i - 1) % 4) + 1]

\* The return address of the call made by the application at call level i.
AppRet(i) == AppEntry(i) + i + 1

\* The return address of a call made inside the function at entry.
LibRet(entry) == entry + 3

\* The return addresses of the application's frames at call level d, innermost
\* first, down to runtime.main and runtime.goexit.
AppStack(d) ==
    [k \in 1..d |-> AppRet(d + 1 - k)] \o <<LibRet(13000), LibRet(14000)>>

\* runtime.Callers(skip, pcs) with len(pcs) = n, on the stack whose first entry
\* is the frame of runtime.Callers itself: the entries after the first skip
\* ones, at most n of them.
RuntimeCallers(skip, n, stk) ==
    IF Len(stk) <= skip THEN <<>>
    ELSE SubSeq(stk, skip + 1, IF Len(stk) - skip < n THEN Len(stk) ELSE skip + n)

\* runtime.Caller(skip) on the stack whose first entry is the frame of the
\* function that calls runtime.Caller: file and line of entry skip, and
\* ok = FALSE when the information cannot be recovered.
RuntimeCaller(skip, stk) ==
    IF skip + 1 > Len(stk) \/ FuncForPC(stk[skip + 1] - 1) = NoFunc
    THEN [file |-> <<>>, line |-> 0, ok |-> FALSE]
    ELSE LET pc == stk[skip + 1] - 1
             fl == FileLine(FuncForPC(pc), pc)
         IN  [file |-> fl.file, line |-> fl.line, ok |-> TRUE]

\* path.Base: the last element of path, trailing slashes removed.
RECURSIVE TrimSlashes(_)
TrimSlashes(path) ==
    IF Len(path) > 0 /\ path[Len(path)] = "/"
    THEN TrimSlashes(SubSeq(path, 1, Len(path) - 1))
    ELSE path

Base(path) ==
    IF path = <<>> THEN <<".">>
    ELSE LET t == TrimSlashes(path)
             b == SliceFrom(t, LastIndex(t, "/") + 1)
         IN  IF b = <<>> THEN <<"/">> ELSE b

-----------------------------------------------------------------------------
(* stack.go                                                                *)

\* The cap of a captured stack.
depth == 32

\* frame.pc
pc(f) == f - 1

\* frame.file
file(f) ==
    LET fn == FuncForPC(pc(f))
    IN  IF fn = NoFunc THEN <<"u", "n", "k", "n", "o", "w", "n">>
        ELSE FileLine(fn, pc(f)).file

\* frame.line
line(f) ==
    LET fn == FuncForPC(pc(f))
    IN  IF fn = NoFunc THEN 0 ELSE FileLine(fn, pc(f)).line

funcnameLastDot(name) ==
    LET n1 == SliceFrom(name, LastIndex(name, "/") + 1)
    IN  SliceFrom(n1, LastIndex(n1, ".") + 1)

\* funcname
funcname(name) ==
    LET n1 == SliceFrom(name, LastIndex(name, "/") + 1)
    IN  SliceFrom(n1, Index(n1, ".") + 1)

\* frame.Format: what the verb writes, plus being the '+' flag.
RECURSIVE frameFormat(_, _, _)
frameFormat(f, verb, plus) ==
    CASE verb = "s" ->
            IF plus
            THEN LET fn == FuncForPC(pc(f))
                 IN  IF fn = NoFunc THEN <<"u", "n", "k", "n", "o", "w", "n">>
                     ELSE fn.name \o <<"\n", "\t">> \o FileLine(fn, pc(f)).file
            ELSE Base(file(f))
      [] verb = "d" -> Itoa(line(f))
      [] verb = "n" -> funcname(FuncForPC(pc(f)).name)
      [] verb = "v" -> frameFormat(f, "s", plus) \o <<":">> \o frameFormat(f, "d", plus)
      [] OTHER -> <<>>

\* (*stack).Format: what the verb writes for the stack s.
RECURSIVE stackFormat(_, _, _)
stackFormat(s, verb, plus) ==
    IF verb = "v" /\ plus
    THEN IF s = <<>> THEN <<>>
         ELSE <<"\n">> \o frameFormat(Head(s), "v", TRUE) \o stackFormat(Tail(s), verb, plus)
    ELSE <<>>

callersSkip2(callerStack) ==
    RuntimeCallers(2, depth, <<LibRet(11000), LibRet(10000)>> \o callerStack)

\* callers, called by the function whose stack is callerStack.
callers(callerStack) ==
    RuntimeCallers(3, depth, <<LibRet(11000), LibRet(10000)>> \o callerStack)

-----------------------------------------------------------------------------
(* errors.go: values.                                                      *)

\* The io.Writers of the program: ioutil.Discard and a buffer of the
\* application.
Discard == "Discard"
Writers == {Discard, "buf"}

\* Messages, prefixes and status codes the application uses.
Msgs == {<<>>, <<"m">>}
CauseMsgs == {<<"m">>, <<"a", "\n", "b">>}
Prefixes == {<<"p">>}
Codes == {-12, 404}

\* A value of the interface type error: the nil interface, an error of another
\* package with its message, or a *Error or *StackError, p being the address
\* of the object in the heap and 0 the nil pointer.
NilError == [t |-> "nil", msg |-> <<>>, p |-> 0]
ErrorString(m) == [t |-> "errorString", msg |-> m, p |-> 0]
ErrorPtr(p) == [t |-> "*Error", msg |-> <<>>, p |-> p]
StackErrorPtr(p) == [t |-> "*StackError", msg |-> <<>>, p |-> p]

\* type Error struct, and type StackError struct (the stack by value).
ErrorObj(code, message) ==
    [kind |-> "Error", err |-> [code |-> code, message |-> message], stack |-> <<>>]
StackErrorObj(ex, st) == [kind |-> "StackError", err |-> ex, stack |-> st]

PtrsOf(h, kind) == {p \in DOMAIN h : h[p].kind = kind}

\* The error values the application can pass as a cause.
Causes(h) ==
    {NilError} \cup {ErrorString(m) : m \in CauseMsgs}
    \cup {ErrorPtr(p) : p \in PtrsOf(h, "Error") \cup {0}}
    \cup {StackErrorPtr(p) : p \in PtrsOf(h, "StackError") \cup {0}}

\* (*Error).Error
ErrorError(e) == <<"S", "t", "a", "t", "u", "s", " ">> \o Itoa(e.code) \o <<" ", ":", " ">> \o e.message

\* (*Error).Code
ErrorCode(e) == e.code

StackErrorErrorPlain(s) == ErrorError(s.err) \o stackFormat(s.stack, "v", FALSE)

\* (*StackError).Error
StackErrorError(s) == ErrorError(s.err) \o stackFormat(s.stack, "v", TRUE)

\* (*StackError).Code
StackErrorCode(s) == ErrorCode(s.err)

MarshalJSONUnsigned(e) == [error |-> e.message, code |-> ItoaUnsigned(e.code)]

\* (*Error).MarshalJSON: the map handed to json.Marshal.
MarshalJSON(e) == [error |-> e.message, code |-> Itoa(e.code)]

\* err == nil, for err of the interface type error.
IsNil(err) == err.t = "nil"

\* Whether err.Error() dereferences a nil pointer.
Panics(err) == err.t \in {"*Error", "*StackError"} /\ err.p = 0

\* err.Error(), for an err on which the call returns.
CauseError(h, err) ==
    CASE err.t = "errorString" -> err.msg
      [] err.t = "*Error" -> ErrorError(h[err.p].err)
      [] err.t = "*StackError" -> StackErrorError(h[err.p])

AnnotateSwapped(message, text) == text \o <<":", " ">> \o message

\* fmt.Sprintf("%s: %s", message, err.Error())
Annotate(message, text) == message \o <<":", " ">> \o text

\* time.Now().Local() as Fprintln prints it: the reading t of the clock.
Timestamp(t) == <<"@">> \o Itoa(t)

\* logError up to the write: the line it hands to the writer. callerStack is
\* the stack of the public function that calls logError.
logLine(e, callerStack, t) ==
    LET c == RuntimeCaller(2, <<LibRet(9000)>> \o callerStack)
        short == IF c.ok
                 THEN IF LastIndex(c.file, "/") >= 0
                      THEN SliceFrom(c.file, LastIndex(c.file, "/") + 1)
                      ELSE IF LastIndex(c.file, "\\") >= 0
                           THEN SliceFrom(c.file, LastIndex(c.file, "\\") + 1)
                           ELSE c.file
                 ELSE <<"?", "?", "?">>
        ln == IF c.ok THEN c.line ELSE 1
    IN  short \o <<" ">> \o Itoa(ln) \o <<" ">> \o ErrorError(e) \o <<" ">>
        \o Timestamp(t) \o <<"\n">>

\* Write on writer w holding buf: ioutil.Discard drops what it is given.
Write(w, buf, data) == IF w = Discard THEN buf ELSE Append(buf, data)

logErrorSilent(e, callerStack) == UNCHANGED <<sinks, written, now>>

\* logError: one Fprintln on the current errorWriter.
logError(e, callerStack) ==
    /\ sinks' = [sinks EXCEPT ![errorWriter] = Write(errorWriter, @, logLine(e, callerStack, now))]
    /\ written' = [written EXCEPT ![errorWriter] = @ + 1]
    /\ now' = now + 1

\* The outcome of the last call: the operation, its receiver and arguments,
\* how it ended ("ok", "panic"), and what it returned: typ the static type of
\* the result ("void" for none), ptr a pointer (0: nil), num an int, text a
\* string, enc a map. level is the call level at which a stack was captured.
Ret(op, recv, code, msg, cause, status, typ, ptr, num, text, enc) ==
    [op |-> op, recv |-> recv, code |-> code, msg |-> msg, cause |-> cause,
     status |-> status, typ |-> typ, ptr |-> ptr, num |-> num, text |-> text,
     enc |-> enc, again |-> FALSE, level |-> 0]

NoEnc == [error |-> <<>>, code |-> <<>>]
NoRet == Ret("none", 0, 0, <<>>, NilError, "ok", "void", 0, 0, <<>>, NoEnc)

-----------------------------------------------------------------------------
(* errors.go: operations. The application calls them at call level         *)
(* callDepth; heap is the sequence of the objects allocated so far.        *)

Panic(op, recv, code, msg, cause) ==
    Ret(op, recv, code, msg, cause, "panic", "void", 0, 0, <<>>, NoEnc)

\* SetLogger
SetLogger(w) ==
    /\ errorWriter' = w
    /\ ret' = Ret("SetLogger", 0, 0, <<>>, NilError, "ok", "void", 0, 0, <<>>, NoEnc)
    /\ UNCHANGED <<heap, sinks, written, now, callDepth>>

\* New
New(message) ==
    /\ Len(heap) < MaxObjs
    /\ heap' = Append(heap, ErrorObj(0, message))
    /\ logError([code |-> 0, message |-> message], <<LibRet(5000)>> \o AppStack(callDepth))
    /\ ret' = Ret("New", 0, 0, message, NilError, "ok", "*Error", Len(heap) + 1, 0, <<>>, NoEnc)
    /\ UNCHANGED <<errorWriter, callDepth>>

WithStatusZero(code, err) ==
    /\ ~Panics(err)
    /\ Len(heap) < MaxObjs
    /\ LET msg == IF IsNil(err) THEN <<>> ELSE CauseError(heap, err)
       IN  /\ heap' = Append(heap, ErrorObj(code, msg))
           /\ logError([code |-> code, message |-> msg], <<LibRet(6000)>> \o AppStack(callDepth))
           /\ ret' = Ret("WithStatus", 0, code, <<>>, err, "ok", "*Error", Len(heap) + 1, 0, <<>>, NoEnc)
    /\ UNCHANGED <<errorWriter, callDepth>>

\* WithStatus
WithStatus(code, err) ==
    /\ IF IsNil(err)
       THEN /\ ret' = Ret("WithStatus", 0, code, <<>>, err, "ok", "*Error", 0, 0, <<>>, NoEnc)
            /\ UNCHANGED <<heap, sinks, written, now>>
       ELSE IF Panics(err)
       THEN /\ ret' = Panic("WithStatus", 0, code, <<>>, err)
            /\ UNCHANGED <<heap, sinks, written, now>>
       ELSE /\ Len(heap) < MaxObjs
            /\ heap' = Append(heap, ErrorObj(code, CauseError(heap, err)))
            /\ logError([code |-> code, message |-> CauseError(heap, err)],
                        <<LibRet(6000)>> \o AppStack(callDepth))
            /\ ret' = Ret("WithStatus", 0, code, <<>>, err, "ok", "*Error", Len(heap) + 1, 0, <<>>, NoEnc)
    /\ UNCHANGED <<errorWriter, callDepth>>

\* WithMessage
WithMessage(message, code, err) ==
    /\ IF IsNil(err)
       THEN /\ ret' = Ret("WithMessage", 0, code, message, err, "ok", "*Error", 0, 0, <<>>, NoEnc)
            /\ UNCHANGED <<heap, sinks, written, now>>
       ELSE IF Panics(err)
       THEN /\ ret' = Panic("WithMessage", 0, code, message, err)
            /\ UNCHANGED <<heap, sinks, written, now>>
       ELSE /\ Len(heap) < MaxObjs
            /\ heap' = Append(heap, ErrorObj(code, Annotate(message, CauseError(heap, err))))
            /\ logError([code |-> code, message |-> Annotate(message, CauseError(heap, err))],
                        <<LibRet(7000)>> \o AppStack(callDepth))
            /\ ret' = Ret("WithMessage", 0, code, message, err, "ok", "*Error", Len(heap) + 1, 0, <<>>, NoEnc)
    /\ UNCHANGED <<errorWriter, callDepth>>

\* WithStack
WithStack(message, status, err) ==
    /\ IF IsNil(err)
       THEN /\ ret' = Ret("WithStack", 0, status, message, err, "ok", "*StackError", 0, 0, <<>>, NoEnc)
            /\ UNCHANGED heap
       ELSE IF Panics(err)
       THEN /\ ret' = Panic("WithStack", 0, status, message, err)
            /\ UNCHANGED heap
       ELSE /\ Len(heap) < MaxObjs
            /\ heap' = Append(heap,
                   StackErrorObj([code |-> status, message |-> Annotate(message, CauseError(heap, err))],
                                 callers(<<LibRet(8000)>> \o AppStack(callDepth))))
            /\ ret' = [Ret("WithStack", 0, status, message, err, "ok", "*StackError", Len(heap) + 1, 0, <<>>, NoEnc)
                       EXCEPT !.level = callDepth]
    /\ UNCHANGED <<errorWriter, sinks, written, now, callDepth>>

Error_WithStatusByValue(e, status) ==
    /\ e # 0
    /\ ret' = Ret("Error.WithStatus", e, status, heap[e].err.message, NilError, "ok", "*Error", e, 0, <<>>, NoEnc)
    /\ UNCHANGED <<heap, errorWriter, sinks, written, now, callDepth>>

\* (*Error).WithStatus on the receiver e; ret.msg keeps the message e had.
Error_WithStatus(e, status) ==
    /\ IF e = 0
       THEN /\ ret' = Panic("Error.WithStatus", e, status, <<>>, NilError)
            /\ UNCHANGED heap
       ELSE /\ heap' = [heap EXCEPT ![e].err.code = status]
            /\ ret' = Ret("Error.WithStatus", e, status, heap[e].err.message, NilError, "ok", "*Error", e, 0, <<>>, NoEnc)
    /\ UNCHANGED <<errorWriter, sinks, written, now, callDepth>>

\* (*Error).Code
Error_Code(e) ==
    /\ ret' = IF e = 0 THEN Panic("Error.Code", e, 0, <<>>, NilError)
              ELSE Ret("Error.Code", e, 0, <<>>, NilError, "ok", "int", 0, ErrorCode(heap[e].err), <<>>, NoEnc)
    /\ UNCHANGED <<heap, errorWriter, sinks, written, now, callDepth>>

\* (*Error).Error; ret.again tells that the call before was the same call.
Error_Error(e) ==
    /\ ret' = IF e = 0 THEN Panic("Error.Error", e, 0, <<>>, NilError)
              ELSE [Ret("Error.Error", e, 0, <<>>, NilError, "ok", "string", 0, 0, ErrorError(heap[e].err), NoEnc)
                    EXCEPT !.again = (ret.op = "Error.Error" /\ ret.recv = e),
                           !.msg = IF ret.op = "Error.Error" /\ ret.recv = e THEN ret.text ELSE <<>>]
    /\ UNCHANGED <<heap, errorWriter, sinks, written, now, callDepth>>

\* (*Error).MarshalJSON
Error_MarshalJSON(e) ==
    /\ ret' = IF e = 0 THEN Panic("Error.MarshalJSON", e, 0, <<>>, NilError)
              ELSE Ret("Error.MarshalJSON", e, 0, <<>>, NilError, "ok", "map", 0, 0, <<>>, MarshalJSON(heap[e].err))
    /\ UNCHANGED <<heap, errorWriter, sinks, written, now, callDepth>>

\* (*StackError).Error; ret.again tells that the call before was the same
\* call, and ret.msg is then what that call returned.
StackError_Error(s) ==
    /\ ret' = IF s = 0 THEN Panic("StackError.Error", s, 0, <<>>, NilError)
              ELSE [Ret("StackError.Error", s, 0, <<>>, NilError, "ok", "string", 0, 0, StackErrorError(heap[s]), NoEnc)
                    EXCEPT !.again = (ret.op = "StackError.Error" /\ ret.recv = s),
                           !.msg = IF ret.op = "StackError.Error" /\ ret.recv = s THEN ret.text ELSE <<>>]
    /\ UNCHANGED <<heap, errorWriter, sinks, written, now, callDepth>>

\* (*StackError).Code
StackError_Code(s) ==
    /\ ret' = IF s = 0 THEN Panic("StackError.Code", s, 0, <<>>, NilError)
              ELSE Ret("StackError.Code", s, 0, <<>>, NilError, "ok", "int", 0, StackErrorCode(heap[s]), <<>>, NoEnc)
    /\ UNCHANGED <<heap, errorWriter, sinks, written, now, callDepth>>

StackError_WithStatusReset(s, status) ==
    /\ s # 0
    /\ heap' = [heap EXCEPT ![s].err = [code |-> status, message |-> <<>>]]
    /\ ret' = Ret("StackError.WithStatus", s, status, <<>>, NilError, "ok", "void", 0, 0, <<>>, NoEnc)
    /\ UNCHANGED <<errorWriter, sinks, written, now, callDepth>>

\* (*StackError).WithStatus
StackError_WithStatus(s, status) ==
    /\ IF s = 0
       THEN /\ ret' = Panic("StackError.WithStatus", s, status, <<>>, NilError)
            /\ UNCHANGED heap
       ELSE /\ heap' = [heap EXCEPT ![s].err.code = status]
            /\ ret' = Ret("StackError.WithStatus", s, status, <<>>, NilError, "ok", "void", 0, 0, <<>>, NoEnc)
    /\ UNCHANGED <<errorWriter, sinks, written, now, callDepth>>

\* The application calls a function or returns from one.
Call ==
    /\ callDepth < MaxDepth
    /\ callDepth' = callDepth + 1
    /\ UNCHANGED <<heap, errorWriter, sinks, written, now, ret>>

Return ==
    /\ callDepth > 1
    /\ callDepth' = callDepth - 1
    /\ UNCHANGED <<heap, errorWriter, sinks, written, now, ret>>

-----------------------------------------------------------------------------
(* The program: any sequence of the package's operations.                  *)

Init ==
    /\ heap = <<>>
    /\ errorWriter = Discard
    /\ sinks = [w \in Writers |-> <<>>]
    /\ written = [w \in Writers |-> 0]
    /\ now = 0
    /\ callDepth = 1
    /\ ret = NoRet

Next ==
    \/ \E w \in Writers : SetLogger(w)
    \/ \E m \in Msgs : New(m)
    \/ \E c \in Codes, e \in Causes(heap) : WithStatus(c, e)
    \/ \E m \in Prefixes, c \in Codes, e \in Causes(heap) : WithMessage(m, c, e)
    \/ \E m \in Prefixes, c \in Codes, e \in Causes(heap) : WithStack(m, c, e)
    \/ \E e \in PtrsOf(heap, "Error") \cup {0}, c \in Codes : Error_WithStatus(e, c)
    \/ \E e \in PtrsOf(heap, "Error") \cup {0} : Error_Code(e)
    \/ \E e \in PtrsOf(heap, "Error") \cup {0} : Error_Error(e)
    \/ \E e \in PtrsOf(heap, "Error") \cup {0} : Error_MarshalJSON(e)
    \/ \E s \in PtrsOf(heap, "StackError") \cup {0}, c \in Codes : StackError_WithStatus(s, c)
    \/ \E s \in PtrsOf(heap, "StackError") \cup {0} : StackError_Code(s)
    \/ \E s \in PtrsOf(heap, "StackError") \cup {0} : StackError_Error(s)

Spec == Init /\ [][Next]_vars

\* The program that constructs one error, at any call level.
StackNext ==
    \/ Call
    \/ Return
    \/ \E w \in Writers : SetLogger(w)
    \/ heap = <<>> /\ \E m \in Msgs : New(m)
    \/ heap = <<>> /\ \E m \in Prefixes, c \in Codes, e \in Causes(heap) : WithStack(m, c, e)
    \/ \E s \in PtrsOf(heap, "StackError") : StackError_Error(s)

StackSpec == Init /\ [][StackNext]_vars

-----------------------------------------------------------------------------
(* The formatting functions of stack.go applied to the names the runtime   *)
(* may report and to the frames of the application.                        *)

NameChars == {"a", "/", "."}

\* Function names as runtime.Func.Name reports them: every string over
\* NameChars up to MaxNameLen, and names of the shapes Go produces.
Names ==
    UNION {[1..n -> NameChars] : n \in 0..MaxNameLen}
    \cup { <<"p", "a", "t", "h", "/", "t", "o", "/", "p", "k", "g", ".", "T", "y", "p", "e", ".", "M", "e", "t", "h", "o", "d">>,
           <<"p", "k", "g", ".", "(", "*", "T", "y", "p", "e", ")", ".", "M", "e", "t", "h", "o", "d">>,
           <<"p", "k", "g", ".", "F", "u", "n", "c">>,
           <<"g", "o", "p", "k", "g", ".", "i", "n", "/", "y", "a", "m", "l", ".", "v", "2", ".", "M", "a", "r", "s", "h", "a", "l">> }

\* Frames of the application and of the runtime.
Frames == {AppRet(i) : i \in 1..4} \cup {LibRet(13000)}

\* funcname(name); ret.msg is the name and ret.text the result.
Funcname_Call(name) ==
    /\ ret' = Ret("funcname", 0, 0, name, NilError, "ok", "string", 0, 0, funcname(name), NoEnc)
    /\ UNCHANGED <<heap, errorWriter, sinks, written, now, callDepth>>

\* fmt.Sprintf of one verb applied to the frame f; ret.num is the frame,
\* ret.msg the verb, ret.again the '+' flag and ret.text the result.
Frame_Format(f, verb, plus) ==
    /\ ret' = [Ret("frame.Format", 0, 0, <<verb>>, NilError, "ok", "string", 0, f, frameFormat(f, verb, plus), NoEnc)
               EXCEPT !.again = plus]
    /\ UNCHANGED <<heap, errorWriter, sinks, written, now, callDepth>>

FormatNext ==
    \/ \E name \in Names : Funcname_Call(name)
    \/ \E f \in Frames, verb \in {"s", "d", "n", "v"}, plus \in BOOLEAN : Frame_Format(f, verb, plus)

FormatSpec == Init /\ [][FormatNext]_vars

-----------------------------------------------------------------------------
(* Properties.                                                             *)

Constructors == {"WithStatus", "WithMessage", "WithStack"}

\* The decimal numerals of the status codes the application uses.
Decimal(c) ==
    CASE c = -12 -> <<"-", "1", "2">>
      [] c = 0 -> <<"0">>
      [] c = 404 -> <<"4", "0", "4">>

\* The integer a decimal numeral denotes.
RECURSIVE Value(_)
Value(d) ==
    IF d = <<>> THEN 0
    ELSE 10 * Value(SubSeq(d, 1, Len(d) - 1))
         + (CHOOSE n \in 0..9 : <<"0", "1", "2", "3", "4", "5", "6", "7", "8", "9">>[n + 1] = d[Len(d)])

Numeral(d) ==
    /\ d # <<>>
    /\ \A i \in 1..Len(d) : d[i] \in {"0", "1", "2", "3", "4", "5", "6", "7", "8", "9"}
    /\ Len(d) > 1 => d[1] # "0"

\* "Status <c> : <m>"
StatusText(c, m) == <<"S", "t", "a", "t", "u", "s", " ">> \o Decimal(c) \o <<" ", ":", " ">> \o m

\* C1: WithStatus, WithMessage and WithStack called with a nil cause return
\* nil, whatever the status code and the prefix, and allocate no error object.
C1_NilCauseReturnsNil ==
    (ret.op \in Constructors /\ IsNil(ret.cause))
        => ret.status = "ok" /\ ret.ptr = 0 /\ ret.typ \in {"*Error", "*StackError"}

C1_Witness ==
    /\ ret.op = "WithMessage" /\ IsNil(ret.cause) /\ ret.code = 404 /\ ret.ptr = 0
    /\ heap # <<>>

\* C2: for a cause whose message is m, WithStatus(c, cause) has Code() = c and
\* Error() = "Status <c> : <m>", and WithMessage(p, c, cause) has Code() = c
\* and Error() = "Status <c> : <p>: <m>".
C2_AnnotatedText ==
    (ret.op \in {"WithStatus", "WithMessage"} /\ ~IsNil(ret.cause) /\ ret.status = "ok")
        => /\ ret.ptr \in PtrsOf(heap, "Error")
           /\ ErrorCode(heap[ret.ptr].err) = ret.code
           /\ ErrorError(heap[ret.ptr].err) =
                 StatusText(ret.code,
                            IF ret.op = "WithStatus"
                            THEN CauseError(heap, ret.cause)
                            ELSE ret.msg \o <<":", " ">> \o CauseError(heap, ret.cause))

C2_Witness ==
    /\ ret.op = "WithMessage" /\ ret.cause = ErrorString(<<"m">>) /\ ret.status = "ok"
    /\ ret.ptr # 0
    /\ ErrorError(heap[ret.ptr].err) =
          <<"S", "t", "a", "t", "u", "s", " ", "4", "0", "4", " ", ":", " ", "p", ":", " ", "m">>

\* The number of lines handed to all the writers together.
TotalWritten == written[Discard] + written["buf"]

\* The number of line ends in the records rs.
RECURSIVE Newlines(_)
Newlines(rs) ==
    IF rs = <<>> THEN 0
    ELSE Cardinality({i \in 1..Len(Head(rs)) : Head(rs)[i] = "\n"}) + Newlines(Tail(rs))

C3_Count ==
    /\ TotalWritten = Cardinality(PtrsOf(heap, "Error"))
    /\ sinks[Discard] = <<>>
    /\ Len(sinks["buf"]) = written["buf"]
    /\ \A i \in 1..Len(sinks["buf"]) :
          LET l == sinks["buf"][i]
          IN  l # <<>> /\ l[Len(l)] = "\n"

C3_Step ==
    LET made == ret'.op \in {"New", "WithStatus", "WithMessage"} /\ ret'.status = "ok" /\ ret'.ptr # 0
    IN  \A w \in Writers :
           written'[w] = written[w] + (IF made /\ w = errorWriter THEN 1 ELSE 0)

C4_Encoding ==
    (ret.op = "Error.MarshalJSON" /\ ret.status = "ok")
        => /\ DOMAIN ret.enc = {"error", "code"}
           /\ ret.enc.error = heap[ret.recv].err.message
           /\ ret.enc.code = Decimal(heap[ret.recv].err.code)
           /\ LET d == ret.enc.code
                  c == ErrorCode(heap[ret.recv].err)
              IN  IF c < 0
                  THEN d[1] = "-" /\ Numeral(Tail(d)) /\ Value(Tail(d)) = -c
                  ELSE Numeral(d) /\ Value(d) = c

C4_Witness ==
    /\ ret.op = "Error.MarshalJSON" /\ ret.status = "ok"
    /\ ret.enc.code = <<"-", "1", "2">> /\ ret.enc.error = <<>>

\* C5: e.WithStatus(s) on a status error e returns e itself, Code() is then
\* s and the message is the one e had, so Error() is "Status <s> : <m>".
C5_FluentSetter ==
    (ret.op = "Error.WithStatus" /\ ret.status = "ok")
        => /\ ret.typ = "*Error" /\ ret.ptr = ret.recv
           /\ ErrorCode(heap[ret.ptr].err) = ret.code
           /\ heap[ret.ptr].err.message = ret.msg
           /\ ErrorError(heap[ret.ptr].err) = StatusText(ret.code, ret.msg)

C5_Witness ==
    /\ ret.op = "Error.WithStatus" /\ ret.status = "ok" /\ ret.code = 404
    /\ ErrorError(heap[ret.recv].err) =
          <<"S", "t", "a", "t", "u", "s", " ", "4", "0", "4", " ", ":", " ", "m">>

C6_Code ==
    (ret.op = "StackError.WithStatus" /\ ret.status = "ok")
        => ret.typ = "void" /\ StackErrorCode(heap[ret.recv]) = ret.code

C6_Frame ==
    \A p \in DOMAIN heap :
        /\ heap'[p].kind = heap[p].kind
        /\ heap'[p].stack = heap[p].stack
        /\ heap'[p].err.message = heap[p].err.message

\* C6: s.WithStatus(c) on a stack error returns nothing and Code() is then c;
\* no operation changes the message or the captured stack of an error that
\* exists.
C6_StackSetter == []C6_Code /\ [][C6_Frame]_vars

C6_Witness ==
    /\ ret.op = "StackError.WithStatus" /\ ret.status = "ok" /\ ret.code = -12
    /\ heap[ret.recv].stack # <<>> /\ heap[ret.recv].err.message # <<>>

\* The verbose form of one frame: the qualified function name, then the
\* file on an indented line, then the line; "unknown:0" without symbols.
VerboseFrame(f) ==
    LET fn == FuncForPC(f - 1)
    IN  IF fn = NoFunc THEN <<"u", "n", "k", "n", "o", "w", "n", ":", "0">>
        ELSE fn.name \o <<"\n", "\t">> \o fn.file \o <<":">> \o Itoa(fn.line + (f - 1 - fn.entry))

RECURSIVE Verbose(_)
Verbose(st) ==
    IF st = <<>> THEN <<>> ELSE <<"\n">> \o VerboseFrame(Head(st)) \o Verbose(Tail(st))

\* C7: Error() of the stack error built by WithStack(p, c, cause) is
\* "Status <c> : <p>: <cause message>" followed by the verbose form of the
\* captured frames in capture order, and a second Error() right after the
\* first returns the same text.
C7_StackErrorText ==
    /\ (ret.op = "WithStack" /\ ~IsNil(ret.cause) /\ ret.status = "ok")
          => StackErrorError(heap[ret.ptr]) =
                StatusText(ret.code, ret.msg \o <<":", " ">> \o CauseError(heap, ret.cause))
                \o Verbose(heap[ret.ptr].stack)
    /\ (ret.op = "StackError.Error" /\ ret.status = "ok")
          => /\ ret.text = StatusText(heap[ret.recv].err.code, heap[ret.recv].err.message)
                           \o Verbose(heap[ret.recv].stack)
             /\ ret.again => ret.msg = ret.text

C7_Witness ==
    /\ ret.op = "StackError.Error" /\ ret.status = "ok" /\ ret.again
    /\ Len(heap[ret.recv].stack) = 5
    /\ \E k \in 1..5 : FuncForPC(heap[ret.recv].stack[k] - 1) = NoFunc

\* C8: a captured stack holds at most 32 frames: the return addresses of the
\* caller of WithStack and of its callers, innermost first, cut after the
\* first 32, and WithStack returns normally when it cuts.
C8_CapturedStack ==
    /\ \A p \in PtrsOf(heap, "StackError") : Len(heap[p].stack) <= 32
    /\ (ret.op = "WithStack" /\ ~IsNil(ret.cause) /\ ~Panics(ret.cause))
          => /\ ret.status = "ok" /\ ret.ptr \in PtrsOf(heap, "StackError")
             /\ LET st == heap[ret.ptr].stack
                    d == ret.level
                IN  /\ Len(st) = IF d + 2 > 32 THEN 32 ELSE d + 2
                    /\ \A k \in 1..Len(st) :
                          st[k] = IF k <= d THEN AppRet(d + 1 - k)
                                  ELSE LibRet(IF k = d + 1 THEN 13000 ELSE 14000)

C8_Witness ==
    /\ ret.op = "WithStack" /\ ret.ptr # 0 /\ ret.level > 32
    /\ Len(heap[ret.ptr].stack) = 32

\* name = dir \o rest, where dir is empty or ends with "/" and rest holds no "/".
AfterPath(name, rest) ==
    \E i \in 0..Len(name) :
        /\ rest = SubSeq(name, i + 1, Len(name))
        /\ i = 0 \/ name[i] = "/"
        /\ "/" \notin Range(rest)

\* out is what follows the first "." of rest, or rest when it holds none.
AfterFirstDot(rest, out) ==
    IF "." \notin Range(rest) THEN out = rest
    ELSE \E j \in 1..Len(rest) :
            /\ rest[j] = "."
            /\ "." \notin Range(SubSeq(rest, 1, j - 1))
            /\ out = SubSeq(rest, j + 1, Len(rest))

\* out is what follows the last "." of rest, or rest when it holds none.
AfterLastDot(rest, out) ==
    IF "." \notin Range(rest) THEN out = rest
    ELSE \E j \in 1..Len(rest) :
            /\ rest[j] = "."
            /\ out = SubSeq(rest, j + 1, Len(rest))
            /\ "." \notin Range(out)

\* The function name the last formatting call was given.
FormattedName ==
    IF ret.op = "funcname" THEN ret.msg ELSE FuncForPC(ret.num - 1).name

IsFuncnameCall ==
    ret.op = "funcname" \/ (ret.op = "frame.Format" /\ ret.msg = <<"n">>)

\* C9 as stated: the function-name form drops the path prefix and the
\* receiver type, so that only the method name remains.
C9_OnlyMethodName ==
    IsFuncnameCall
        => \E rest \in {SubSeq(FormattedName, i, Len(FormattedName)) : i \in 1..(Len(FormattedName) + 1)} :
              AfterPath(FormattedName, rest) /\ AfterLastDot(rest, ret.text)

\* C9, amended: the function-name form is what follows the first "." after
\* the last "/" of the name (all that follows the last "/" when there is no
\* "."): a receiver type stays in front of the method name.
C9_AfterFirstDot ==
    IsFuncnameCall
        => \E rest \in {SubSeq(FormattedName, i, Len(FormattedName)) : i \in 1..(Len(FormattedName) + 1)} :
              AfterPath(FormattedName, rest) /\ AfterFirstDot(rest, ret.text)

C9_Witness ==
    /\ ret.op = "funcname"
    /\ ret.msg = <<"p", "a", "t", "h", "/", "t", "o", "/", "p", "k", "g", ".", "T", "y", "p", "e", ".", "M", "e", "t", "h", "o", "d">>
    /\ ret.text = <<"T", "y", "p", "e", ".", "M", "e", "t", "h", "o", "d">>

C10_Chain ==
    (ret.op \in Constructors /\ ret.status = "ok" /\ ret.ptr = 0
       /\ ret'.op \in Constructors /\ ret'.cause = [t |-> ret.typ, msg |-> <<>>, p |-> 0])
        => /\ ret'.status = "ok" /\ ret'.ptr = 0
           /\ UNCHANGED <<heap, sinks, written>>

\* C10: when the nil *Error or *StackError an annotating constructor returned
\* is passed as the cause of an annotating constructor, that call returns nil
\* too, writes no line and does not fail.
C10_NilPropagates == [][C10_Chain]_vars

====
